---- MODULE Spec2Model ----
(***************************************************************************)
(* Model of functions/index.js of beatport-spotify-sync: two HTTPS         *)
(* webhooks (importTracks, retrySpotify), two Realtime Database create     *)
(* triggers (onNewPurchase, onNewTracks) and the per-track routine         *)
(* importTrack with its helpers refreshAccessToken, searchTrack,           *)
(* sanitizeTrackName, addTrackToPlaylist and batchImportTracks.            *)
(*                                                                         *)
(* JavaScript strings are sequences of one-character strings, so that      *)
(* split, replace and template literals are computed as the code computes  *)
(* them.  Every await is a step of its own; what runs between two awaits   *)
(* is one action.                                                          *)
(***************************************************************************)
EXTENDS Integers, Sequences, FiniteSets, TLC

\* ------------------------------------------------------------------ bounds

\* webhook deliveries of importTracks in one behaviour
MaxWebhooks == 2
\* invocations of retrySpotify in one behaviour
MaxSweeps == 1
\* Track Records in the store when the single sweep of SpecSweep starts
NumTracks == 12
\* pieces a title of SpecTitles is put together from
MaxPieces == 3
\* invocations of retrySpotify in one behaviour of SpecRecover
MaxRetries == 2

\* ----------------------------------------------------------------- strings

Null == "null"

UpperCase == <<"A","B","C","D","E","F","G","H","I","J","K","L","M","N","O","P","Q","R","S","T","U","V","W","X","Y","Z">>
LowerCase == <<"a","b","c","d","e","f","g","h","i","j","k","l","m","n","o","p","q","r","s","t","u","v","w","x","y","z">>
Digits == <<"0","1","2","3","4","5","6","7","8","9">>

\* the i flag of a regular expression: characters are compared case-folded
Fold(c) ==
  IF \E i \in DOMAIN UpperCase : UpperCase[i] = c
  THEN LowerCase[CHOOSE i \in DOMAIN UpperCase : UpperCase[i] = c]
  ELSE c

\* does the literal pattern pat match s at its first character, ignoring case
MatchesHeadCI(s, pat) ==
  /\ Len(s) >= Len(pat)
  /\ \A i \in 1..Len(pat) : Fold(s[i]) = Fold(pat[i])

\* String.prototype.replace(/(pat)/gi, ''): leftmost matches, left to right,
\* the scan resumes after each match and never rescans what it produced
RECURSIVE ReplaceAllCI(_, _)
ReplaceAllCI(s, pat) ==
  IF Len(s) < Len(pat) THEN s
  ELSE IF MatchesHeadCI(s, pat)
       THEN ReplaceAllCI(SubSeq(s, Len(pat) + 1, Len(s)), pat)
       ELSE <<Head(s)>> \o ReplaceAllCI(Tail(s), pat)

\* String.prototype.replace(/[()]/g, '')
StripParens(s) == SelectSeq(s, LAMBDA c : c \notin {"(", ")"})

OriginalMix == <<"O","r","i","g","i","n","a","l"," ","M","i","x">>
ExtendedMix == <<"E","x","t","e","n","d","e","d"," ","M","i","x">>

\* sanitizeTrackName deleting the parentheses only
sanitizeTrackName_ParensOnly(name) == StripParens(name)

sanitizeTrackName(name) ==
  StripParens(ReplaceAllCI(ReplaceAllCI(name, OriginalMix), ExtendedMix))

\* String.prototype.split(','): the pieces between the commas, untrimmed
RECURSIVE Split(_, _)
Split(s, sep) ==
  IF \E i \in 1..Len(s) : s[i] = sep
  THEN LET i == CHOOSE j \in 1..Len(s) : s[j] = sep /\ \A k \in 1..(j - 1) : s[k] # sep
       IN <<SubSeq(s, 1, i - 1)>> \o Split(SubSeq(s, i + 1, Len(s)), sep)
  ELSE <<s>>

ArtistPrefix == <<"a","r","t","i","s","t",":">>
TrackPrefix == <<" ","t","r","a","c","k",":">>

\* the template literal `artist:${artist} track:${sanitizeTrackName(name)}`
SearchQuery(artist, name) ==
  ArtistPrefix \o artist \o TrackPrefix \o sanitizeTrackName(name)

\* Number(id) for an identifier given in its string form: decimal digits
\* convert to their value, the empty string to 0, anything else to NaN
NaN == [nan |-> TRUE, val |-> 0]

DigitValue(c) == (CHOOSE i \in DOMAIN Digits : Digits[i] = c) - 1

RECURSIVE DecimalValue(_)
DecimalValue(s) ==
  IF s = <<>> THEN 0
  ELSE 10 * DecimalValue(SubSeq(s, 1, Len(s) - 1)) + DigitValue(s[Len(s)])

Number(id) ==
  IF \A i \in 1..Len(id) : \E d \in DOMAIN Digits : Digits[d] = id[i]
  THEN [nan |-> FALSE, val |-> DecimalValue(id)]
  ELSE NaN

\* JavaScript truthiness of a number: NaN and 0 are falsy
Truthy(n) == ~n.nan /\ n.val # 0

\* Object.keys(track).reduce(... obj[key.toLowerCase()] = track[key] ...)
KeyToLowerCase(k) ==
  CASE k = "Item" -> "item"
    [] k = "Name" -> "name"
    [] k = "Artists" -> "artists"
    [] OTHER -> k

LowerCaseKeys(track) ==
  [k \in {KeyToLowerCase(j) : j \in DOMAIN track} |->
     track[CHOOSE j \in DOMAIN track : KeyToLowerCase(j) = k]]

\* ------------------------------------------------------------ environment

\* the one playlist tracks are added to; the variable playlist is its content
PLAYLIST_ID == "6WyKo6Zejscls8G676N8UX"

\* webhook tracks as the store sends them (capitalised keys)
ItemSong == <<"1","2","3">>
ItemDuo == <<"4","5","6">>
ItemPreorder == <<"p","r","e">>

TrackSong ==
  [Item |-> ItemSong,
   Name |-> <<"S","o","n","g"," ","(","O","r","i","g","i","n","a","l"," ","M","i","x",")">>,
   Artists |-> <<"D","J"," ","A">>]

TrackDuo ==
  [Item |-> ItemDuo,
   Name |-> <<"T","u","n","e">>,
   Artists |-> <<"A",","," ","B">>]

TrackPreorder ==
  [Item |-> ItemPreorder,
   Name |-> <<"T","u","n","e">>,
   Artists |-> <<"D","J"," ","A">>]

\* req.body of importTracks: the deliveries the store makes
Deliveries ==
  {[order_id |-> "X", tracks |-> <<TrackSong>>],
   [order_id |-> "Y", tracks |-> <<TrackPreorder, TrackSong>>],
   [order_id |-> "Y", tracks |-> <<TrackPreorder>>]}
DeliveriesDuo ==
  {[order_id |-> "X", tracks |-> <<TrackDuo>>]}

\* what the catalogue answers to the query of the i-th artist: a candidate
\* list (tracks.items), possibly empty, or a failed request
\* the k-th candidate the catalogue has for the i-th artist of a track
Uri(i, k) == "spotify:track:" \o ToString(i) \o "-" \o ToString(k)
AllCandidateLists == {"none", "some", "failed"}
SearchOutcomes(i, candidates) ==
  {[ok |-> TRUE, items |-> <<>>] : c \in candidates \cap {"none"}}
    \cup {[ok |-> TRUE, items |-> <<Uri(i, 1), Uri(i, 2)>>] : c \in candidates \cap {"some"}}
    \cup {[ok |-> FALSE, items |-> <<>>] : c \in candidates \cap {"failed"}}

\* how a request to the playlist endpoint ends
InsertFailures == {"unauthorized", "other"}

NoSnapshot == 0

\* ------------------------------------------------------------------ state

VARIABLES
  purchases,        \* /purchases: order id -> [tracks: item key -> track]
  tracks,           \* /tracks: item key -> [track, spotifyUri, spotifyPlaylistSnapshotId]
  tokens,           \* /tokens: [access_token, refresh_token]
  requests,         \* invocations of importTracks, in order of arrival
  purchaseTriggers, \* invocations of onNewPurchase, by the request that fired them
  sweeps,           \* invocations of retrySpotify, in order of arrival
  tasks,            \* runs of importTrack, by who started them
  playlist,         \* the playlist PLAYLIST_ID at the catalogue, head first
  tokensIssued      \* access tokens the token endpoint has handed out

vars ==
  <<purchases, tracks, tokens, requests, purchaseTriggers, sweeps, tasks,
    playlist, tokensIssued>>

\* the function f with key k set to v
Put(f, k, v) == [x \in DOMAIN f \cup {k} |-> IF x = k THEN v ELSE f[x]]
\* the function f without key k
Remove(f, k) == [x \in DOMAIN f \ {k} |-> f[x]]

\* /tokens as provisioned out of band; the token endpoint numbers the access
\* tokens it hands out from 1
InitialAccessToken == 0
RefreshToken == "refresh-token"

TriggerTask(key) == [kind |-> "onNewTracks", key |-> key, sweep |-> 0, index |-> 0]
SweepTask(s, i, key) == [kind |-> "retrySpotify", key |-> key, sweep |-> s, index |-> i]

\* importTrack(trackId, track) entered: nothing awaited yet
NewTask(trackId, track) ==
  [trackId |-> trackId,
   track |-> track,
   pc |-> "loadTokens",
   accessToken |-> InitialAccessToken,
   refreshToken |-> Null,
   searchQueries |-> <<>>,
   responses |-> <<>>,
   failedQueries |-> {},
   spotifyUri |-> Null,
   spotifyPlaylistSnapshotId |-> NoSnapshot,
   refreshCalls |-> 0,
   insertCalls |-> 0,
   uriWrites |-> 0,
   snapshotWrites |-> 0,
   error |-> "none"]

\* the create trigger of /tracks/{id}: importTrack(context.params.id,
\* snapshot.val()) is entered
onNewTracks(trackId, track) == NewTask(trackId, track)

Init ==
  /\ purchases = <<>>
  /\ tracks = <<>>
  /\ tokens = [access_token |-> InitialAccessToken, refresh_token |-> RefreshToken]
  /\ requests = <<>>
  /\ purchaseTriggers = <<>>
  /\ sweeps = <<>>
  /\ tasks = <<>>
  /\ playlist = <<>>
  /\ tokensIssued = 0

\* ----------------------------------------------------------- importTracks

\* TrackCollection without the check of the id
RECURSIVE TrackCollection_Unchecked(_)
TrackCollection_Unchecked(payload) ==
  IF payload = <<>> THEN <<>>
  ELSE LET acc == TrackCollection_Unchecked(SubSeq(payload, 1, Len(payload) - 1))
           sanitizedTrack == LowerCaseKeys(payload[Len(payload)])
       IN Put(acc, sanitizedTrack.item, sanitizedTrack)

\* tracks.reduce(...): the hash of the tracks by item id, ids that do not
\* convert to a truthy number left out
RECURSIVE TrackCollection(_)
TrackCollection(payload) ==
  IF payload = <<>> THEN <<>>
  ELSE LET acc == TrackCollection(SubSeq(payload, 1, Len(payload) - 1))
           sanitizedTrack == LowerCaseKeys(payload[Len(payload)])
           id == sanitizedTrack.item
       IN IF ~Truthy(Number(id)) THEN acc ELSE Put(acc, id, sanitizedTrack)

\* the request body is parsed and ref('/purchases').child(order_id).set(...)
\* has been applied; an empty hash is no data, so the path is removed; the
\* create trigger fires when the path held nothing and now holds something
importTracks_set(order_id, payload) ==
  /\ LET trackCollection == TrackCollection(payload)
         r == Len(requests) + 1
     IN /\ requests' = Append(requests,
             [order_id |-> order_id, tracks |-> payload, pc |-> "respond", status |-> 0])
        /\ purchases' = IF DOMAIN trackCollection = {}
                        THEN Remove(purchases, order_id)
                        ELSE Put(purchases, order_id, [tracks |-> trackCollection])
        /\ purchaseTriggers' =
             IF order_id \notin DOMAIN purchases /\ DOMAIN trackCollection # {}
             THEN Put(purchaseTriggers, r,
                      [purchase |-> [tracks |-> trackCollection],
                       pending |-> DOMAIN trackCollection])
             ELSE purchaseTriggers
  /\ UNCHANGED <<tracks, tokens, sweeps, tasks, playlist, tokensIssued>>

\* res.sendStatus(200)
importTracks_respond(r) ==
  /\ r \in DOMAIN requests
  /\ requests[r].pc = "respond"
  /\ requests' = [requests EXCEPT ![r].pc = "done", ![r].status = 200]
  /\ UNCHANGED <<purchases, tracks, tokens, purchaseTriggers, sweeps, tasks,
                 playlist, tokensIssued>>

\* ---------------------------------------------------------- onNewPurchase

\* one of the concurrent ref('/tracks').child(track.item).set({ track }) of
\* Promise.all has been applied: the record is replaced by { track }; the
\* create trigger onNewTracks fires when the path held nothing
onNewPurchase_set(r, trackId) ==
  /\ r \in DOMAIN purchaseTriggers
  /\ trackId \in purchaseTriggers[r].pending
  /\ LET track == purchaseTriggers[r].purchase.tracks[trackId]
         value == [track |-> track, spotifyUri |-> Null,
                   spotifyPlaylistSnapshotId |-> NoSnapshot]
     IN /\ tracks' = Put(tracks, track.item, value)
        /\ tasks' = IF track.item \notin DOMAIN tracks
                    THEN Put(tasks, TriggerTask(track.item), onNewTracks(track.item, value))
                    ELSE tasks
  /\ purchaseTriggers' = [purchaseTriggers EXCEPT ![r].pending = @ \ {trackId}]
  /\ UNCHANGED <<purchases, tokens, requests, sweeps, playlist, tokensIssued>>

\* ------------------------------------------------------------ importTrack

AtPc(t, pc) == t \in DOMAIN tasks /\ tasks[t].pc = pc

\* ref('/tokens/access_token') and ref('/tokens/refresh_token') have been
\* read and the client is built from them (the second read is taken with the
\* first: nothing in this file writes /tokens/refresh_token)
importTrack_loadTokens(t) ==
  /\ AtPc(t, "loadTokens")
  /\ tasks' = [tasks EXCEPT ![t].accessToken = tokens.access_token,
                            ![t].refreshToken = tokens.refresh_token,
                            ![t].pc = "refreshAccessToken"]
  /\ UNCHANGED <<purchases, tracks, tokens, requests, purchaseTriggers, sweeps,
                 playlist, tokensIssued>>

\* the queries of searchTrack: one per piece of artists.split(',')
SearchQueries(track) ==
  LET sanitizedTrack == LowerCaseKeys(track)
      artists == Split(sanitizedTrack.artists, ",")
  IN [i \in 1..Len(artists) |-> SearchQuery(artists[i], sanitizedTrack.name)]

\* searchTrack up to Promise.all: every client.searchTracks(query) has been
\* sent, none has settled; this runs in the turn in which the await of
\* refreshAccessToken resumes
searchTrack_forEach(task) ==
  LET searchQueries == SearchQueries(task.track.track)
  IN [task EXCEPT !.searchQueries = searchQueries,
                  !.responses = [i \in DOMAIN searchQueries |-> "pending"],
                  !.pc = "searchTrack"]

\* client.refreshAccessToken() resolved: client.setAccessToken(access_token),
\* the set of /tokens/access_token is awaited next
refreshAccessToken_then(t) ==
  /\ AtPc(t, "refreshAccessToken")
  /\ tokensIssued' = tokensIssued + 1
  /\ tasks' = [tasks EXCEPT ![t].accessToken = tokensIssued + 1,
                            ![t].refreshCalls = @ + 1,
                            ![t].pc = "setAccessToken"]
  /\ UNCHANGED <<purchases, tracks, tokens, requests, purchaseTriggers, sweeps,
                 playlist>>

\* refreshAccessToken_set writing at ref('/tokens'): the set replaces the
\* whole of /tokens and the refresh token is gone
refreshAccessToken_set_AtTokens(t) ==
  /\ AtPc(t, "setAccessToken")
  /\ tokens' = [access_token |-> tasks[t].accessToken, refresh_token |-> Null]
  /\ tasks' = [tasks EXCEPT ![t] = searchTrack_forEach(@)]
  /\ UNCHANGED <<purchases, tracks, requests, purchaseTriggers, sweeps,
                 playlist, tokensIssued>>

\* ref('/tokens/access_token').set(access_token) has been applied;
\* refreshAccessToken resolves and importTrack goes on to searchTrack
refreshAccessToken_set(t) ==
  /\ AtPc(t, "setAccessToken")
  /\ tokens' = [tokens EXCEPT !.access_token = tasks[t].accessToken]
  /\ tasks' = [tasks EXCEPT ![t] = searchTrack_forEach(@)]
  /\ UNCHANGED <<purchases, tracks, requests, purchaseTriggers, sweeps,
                 playlist, tokensIssued>>

\* refreshAccessToken_catch throwing the error again: refreshAccessToken
\* rejects and so does importTrack
refreshAccessToken_catch_Rethrown(t) ==
  /\ AtPc(t, "refreshAccessToken")
  /\ tasks' = [tasks EXCEPT ![t].refreshCalls = @ + 1, ![t].pc = "rejected"]
  /\ UNCHANGED <<purchases, tracks, tokens, requests, purchaseTriggers, sweeps,
                 playlist, tokensIssued>>

\* client.refreshAccessToken() rejected: logged, refreshAccessToken resolves
\* all the same and importTrack goes on to searchTrack
refreshAccessToken_catch(t) ==
  /\ AtPc(t, "refreshAccessToken")
  /\ tasks' = [tasks EXCEPT ![t] = searchTrack_forEach([@ EXCEPT !.refreshCalls = @ + 1])]
  /\ UNCHANGED <<purchases, tracks, tokens, requests, purchaseTriggers, sweeps,
                 playlist, tokensIssued>>

\* what the then/catch of one request makes of its outcome
SearchResult(outcome) ==
  IF outcome.ok /\ Len(outcome.items) > 0 THEN outcome.items[1] ELSE Null

\* FirstNonNull taking the last response that is not null
FirstNonNull_Last(arrayOfResponses) ==
  IF \E i \in DOMAIN arrayOfResponses : arrayOfResponses[i] # Null
  THEN arrayOfResponses[CHOOSE i \in DOMAIN arrayOfResponses :
         /\ arrayOfResponses[i] # Null
         /\ \A j \in DOMAIN arrayOfResponses : j > i => arrayOfResponses[j] = Null]
  ELSE Null

\* arrayOfResponses.find(response => response); undefined is Null here
FirstNonNull(arrayOfResponses) ==
  IF \E i \in DOMAIN arrayOfResponses : arrayOfResponses[i] # Null
  THEN arrayOfResponses[CHOOSE i \in DOMAIN arrayOfResponses :
         /\ arrayOfResponses[i] # Null
         /\ \A j \in 1..(i - 1) : arrayOfResponses[j] = Null]
  ELSE Null

\* searchTrack_all without the if (spotifyUri): the record is updated and
\* the playlist called whatever the search found
searchTrack_all_Unguarded(task) ==
  IF \E i \in DOMAIN task.responses : task.responses[i] = "pending"
  THEN task
  ELSE [task EXCEPT !.spotifyUri = Uri(1, 1), !.pc = "updateUri"]

\* Promise.all(searchQueries) once every request has settled, and the
\* if (spotifyUri) of importTrack: the update of the record is awaited next,
\* or importTrack resolves
searchTrack_all(task) ==
  IF \E i \in DOMAIN task.responses : task.responses[i] = "pending"
  THEN task
  ELSE LET spotifyUri == FirstNonNull(task.responses)
       IN [task EXCEPT !.spotifyUri = spotifyUri,
                       !.pc = IF spotifyUri # Null THEN "updateUri" ELSE "done"]

\* searchTrack_settle without the catch: a failed request rejects the run
searchTrack_settle_Uncaught(t, i, outcome) ==
  /\ AtPc(t, "searchTrack")
  /\ i \in DOMAIN tasks[t].responses
  /\ tasks[t].responses[i] = "pending"
  /\ tasks' = [tasks EXCEPT ![t] =
       IF outcome.ok
       THEN searchTrack_all([@ EXCEPT !.responses[i] = SearchResult(outcome)])
       ELSE [@ EXCEPT !.failedQueries = @ \cup {i}, !.pc = "rejected"]]
  /\ UNCHANGED <<purchases, tracks, tokens, requests, purchaseTriggers, sweeps,
                 playlist, tokensIssued>>

\* the i-th request settles, in any order
searchTrack_settle(t, i, outcome) ==
  /\ AtPc(t, "searchTrack")
  /\ i \in DOMAIN tasks[t].responses
  /\ tasks[t].responses[i] = "pending"
  /\ tasks' = [tasks EXCEPT ![t] =
       searchTrack_all([@ EXCEPT !.responses[i] = SearchResult(outcome),
                                 !.failedQueries = IF outcome.ok THEN @ ELSE @ \cup {i}])]
  /\ UNCHANGED <<purchases, tracks, tokens, requests, purchaseTriggers, sweeps,
                 playlist, tokensIssued>>

\* ref(`/tracks/${trackId}`).update({ spotifyUri }) has been applied
importTrack_updateUri(t) ==
  /\ AtPc(t, "updateUri")
  /\ tasks[t].trackId \in DOMAIN tracks
  /\ tracks' = [tracks EXCEPT ![tasks[t].trackId].spotifyUri = tasks[t].spotifyUri]
  /\ tasks' = [tasks EXCEPT ![t].uriWrites = @ + 1, ![t].pc = "addTrackToPlaylist"]
  /\ UNCHANGED <<purchases, tokens, requests, purchaseTriggers, sweeps,
                 playlist, tokensIssued>>

\* client.addTracksToPlaylist(playlist, [track], { position: 0 }) resolved
\* with data.body.snapshot_id; if (spotifyPlaylistSnapshotId) chooses between
\* the update of the record and the end of importTrack
addTrackToPlaylist_then(t, withSnapshotId) ==
  /\ AtPc(t, "addTrackToPlaylist")
  /\ playlist' = <<tasks[t].spotifyUri>> \o playlist
  /\ LET snapshot_id == IF withSnapshotId THEN Len(playlist) + 1 ELSE NoSnapshot
     IN tasks' = [tasks EXCEPT ![t].insertCalls = @ + 1,
                               ![t].spotifyPlaylistSnapshotId = snapshot_id,
                               ![t].pc = IF snapshot_id # NoSnapshot
                                         THEN "updateSnapshotId" ELSE "done"]
  /\ UNCHANGED <<purchases, tracks, tokens, requests, purchaseTriggers, sweeps,
                 tokensIssued>>

\* addTrackToPlaylist_catch without the throw: the error is swallowed and
\* importTrack goes on as if the track had been added
addTrackToPlaylist_catch_Swallowed(t, err) ==
  /\ AtPc(t, "addTrackToPlaylist")
  /\ tasks' = [tasks EXCEPT ![t].insertCalls = @ + 1,
                            ![t].error = err,
                            ![t].spotifyPlaylistSnapshotId = Len(playlist) + 1,
                            ![t].pc = "updateSnapshotId"]
  /\ UNCHANGED <<purchases, tracks, tokens, requests, purchaseTriggers, sweeps,
                 playlist, tokensIssued>>

\* addTrackToPlaylist_catch without the throw: the catch returns undefined,
\* if (spotifyPlaylistSnapshotId) is false and importTrack resolves
addTrackToPlaylist_catch_Resolved(t, err) ==
  /\ AtPc(t, "addTrackToPlaylist")
  /\ tasks' = [tasks EXCEPT ![t].insertCalls = @ + 1,
                            ![t].error = err,
                            ![t].pc = "done"]
  /\ UNCHANGED <<purchases, tracks, tokens, requests, purchaseTriggers, sweeps,
                 playlist, tokensIssued>>

\* client.addTracksToPlaylist rejected: logged and thrown again, so
\* importTrack rejects
addTrackToPlaylist_catch(t, err) ==
  /\ AtPc(t, "addTrackToPlaylist")
  /\ tasks' = [tasks EXCEPT ![t].insertCalls = @ + 1,
                            ![t].error = err,
                            ![t].pc = "rejected"]
  /\ UNCHANGED <<purchases, tracks, tokens, requests, purchaseTriggers, sweeps,
                 playlist, tokensIssued>>

\* ref(`/tracks/${trackId}`).update({ spotifyPlaylistSnapshotId }) has been
\* applied and importTrack resolves
importTrack_updateSnapshotId(t) ==
  /\ AtPc(t, "updateSnapshotId")
  /\ tasks[t].trackId \in DOMAIN tracks
  /\ tracks' = [tracks EXCEPT ![tasks[t].trackId].spotifyPlaylistSnapshotId =
                                tasks[t].spotifyPlaylistSnapshotId]
  /\ tasks' = [tasks EXCEPT ![t].snapshotWrites = @ + 1, ![t].pc = "done"]
  /\ UNCHANGED <<purchases, tokens, requests, purchaseTriggers, sweeps,
                 playlist, tokensIssued>>

\* ----------------------------------------------------------- retrySpotify

\* limitToFirst(10)
PageLimit == 10

\* the store's order of the children of /tracks that have equal (absent)
\* spotifyUri: by key, integer keys by value
KeyBefore(a, b) == Number(a).val < Number(b).val

RECURSIVE SortedKeys(_)
SortedKeys(keys) ==
  IF keys = {} THEN <<>>
  ELSE LET first == CHOOSE k \in keys : \A other \in keys \ {k} : KeyBefore(k, other)
       IN <<first>> \o SortedKeys(keys \ {first})

\* OrphanTracks without equalTo(null): the first records, resolved or not
OrphanTracks_Unfiltered ==
  LET keys == SortedKeys(DOMAIN tracks)
      page == SubSeq(keys, 1, IF Len(keys) < PageLimit THEN Len(keys) ELSE PageLimit)
  IN [isNull |-> page = <<>>, values |-> [i \in DOMAIN page |-> tracks[page[i]]]]

\* orderByChild('spotifyUri').equalTo(null).limitToFirst(10).once('value'),
\* then snapshot.val(): null when nothing matches; values are Object.values
OrphanTracks ==
  LET keys == SortedKeys({k \in DOMAIN tracks : tracks[k].spotifyUri = Null})
      page == SubSeq(keys, 1, IF Len(keys) < PageLimit THEN Len(keys) ELSE PageLimit)
  IN [isNull |-> page = <<>>, values |-> [i \in DOMAIN page |-> tracks[page[i]]]]

\* the request arrives and the query has been answered
retrySpotify_once ==
  /\ sweeps' = Append(sweeps,
       [pc |-> "send", orphanTracks |-> OrphanTracks, status |-> 0, started |-> 0,
        unmatched |-> {k \in DOMAIN tracks : tracks[k].spotifyUri = Null}])
  /\ UNCHANGED <<purchases, tracks, tokens, requests, purchaseTriggers, tasks,
                 playlist, tokensIssued>>

\* retrySpotify_send moved behind the batch: nothing is sent yet
retrySpotify_send_AfterBatch(s) ==
  /\ s \in DOMAIN sweeps
  /\ sweeps[s].pc = "send"
  /\ sweeps' = [sweeps EXCEPT ![s].pc = "batchImportTracks"]
  /\ UNCHANGED <<purchases, tracks, tokens, requests, purchaseTriggers, tasks,
                 playlist, tokensIssued>>

\* res.status(200).send(JSON.stringify(orphanTracks))
retrySpotify_send(s) ==
  /\ s \in DOMAIN sweeps
  /\ sweeps[s].pc = "send"
  /\ sweeps' = [sweeps EXCEPT ![s].status = 200, ![s].pc = "batchImportTracks"]
  /\ UNCHANGED <<purchases, tracks, tokens, requests, purchaseTriggers, tasks,
                 playlist, tokensIssued>>

\* Object.values(orphanTracks) of null throws a TypeError: the handler rejects
retrySpotify_throw(s) ==
  /\ s \in DOMAIN sweeps
  /\ sweeps[s].pc = "batchImportTracks"
  /\ sweeps[s].orphanTracks.isNull
  /\ sweeps' = [sweeps EXCEPT ![s].pc = "rejected"]
  /\ UNCHANGED <<purchases, tracks, tokens, requests, purchaseTriggers, tasks,
                 playlist, tokensIssued>>

\* the importTrack the loop of batchImportTracks awaits, if any
Awaited(s) ==
  LET collection == sweeps[s].orphanTracks.values
      i == sweeps[s].started
  IN SweepTask(s, i, collection[i].track.item)

\* LoopMayGoOn without the await: the loop does not wait for importTrack
LoopMayGoOn_NoAwait(s) ==
  /\ s \in DOMAIN sweeps
  /\ sweeps[s].pc = "batchImportTracks"
  /\ ~sweeps[s].orphanTracks.isNull

LoopMayGoOn(s) ==
  /\ s \in DOMAIN sweeps
  /\ sweeps[s].pc = "batchImportTracks"
  /\ ~sweeps[s].orphanTracks.isNull
  /\ sweeps[s].started > 0 => tasks[Awaited(s)].pc = "done"

\* for (let track of collection) await importTrack(track.track.item, track):
\* the next importTrack is entered once the awaited one has resolved
batchImportTracks_importTrack(s) ==
  /\ LoopMayGoOn(s)
  /\ sweeps[s].started < Len(sweeps[s].orphanTracks.values)
  /\ LET i == sweeps[s].started + 1
         track == sweeps[s].orphanTracks.values[i]
     IN /\ tasks' = Put(tasks, SweepTask(s, i, track.track.item),
                        NewTask(track.track.item, track))
        /\ sweeps' = [sweeps EXCEPT ![s].started = i]
  /\ UNCHANGED <<purchases, tracks, tokens, requests, purchaseTriggers,
                 playlist, tokensIssued>>

\* the loop is over: batchImportTracks resolves and retrySpotify returns
batchImportTracks_return(s) ==
  /\ LoopMayGoOn(s)
  /\ sweeps[s].started = Len(sweeps[s].orphanTracks.values)
  /\ sweeps' = [sweeps EXCEPT ![s].pc = "complete"]
  /\ UNCHANGED <<purchases, tracks, tokens, requests, purchaseTriggers, tasks,
                 playlist, tokensIssued>>

\* the awaited importTrack rejected: nothing catches it, the loop ends and
\* the handler rejects
batchImportTracks_reject(s) ==
  /\ s \in DOMAIN sweeps
  /\ sweeps[s].pc = "batchImportTracks"
  /\ ~sweeps[s].orphanTracks.isNull
  /\ sweeps[s].started > 0
  /\ tasks[Awaited(s)].pc = "rejected"
  /\ sweeps' = [sweeps EXCEPT ![s].pc = "rejected"]
  /\ UNCHANGED <<purchases, tracks, tokens, requests, purchaseTriggers, tasks,
                 playlist, tokensIssued>>

\* ---------------------------------------------------------- specification

\* one step of a run of importTrack, the catalogue answering from the given
\* outcomes
TaskStep(t, refreshMayFail, candidates, insertFailures, snapshotIds) ==
  \/ importTrack_loadTokens(t)
  \/ refreshAccessToken_then(t)
  \/ refreshAccessToken_set(t)
  \/ (refreshMayFail /\ refreshAccessToken_catch(t))
  \/ \E i \in DOMAIN tasks[t].responses : \E outcome \in SearchOutcomes(i, candidates) :
       searchTrack_settle(t, i, outcome)
  \/ importTrack_updateUri(t)
  \/ \E withSnapshotId \in snapshotIds : addTrackToPlaylist_then(t, withSnapshotId)
  \/ \E err \in insertFailures : addTrackToPlaylist_catch(t, err)
  \/ importTrack_updateSnapshotId(t)

SweepStep(s) ==
  \/ retrySpotify_send(s)
  \/ retrySpotify_throw(s)
  \/ batchImportTracks_importTrack(s)
  \/ batchImportTracks_return(s)
  \/ batchImportTracks_reject(s)

Webhook(deliveries) ==
  /\ Len(requests) < MaxWebhooks
  /\ \E body \in deliveries : importTracks_set(body.order_id, body.tracks)

Sweep ==
  /\ Len(sweeps) < MaxSweeps
  /\ retrySpotify_once

\* The whole system: deliveries of the single-artist track, with and without
\* a malformed companion, one sweep, every outcome of the external calls.
Next ==
  \/ Webhook(Deliveries)
  \/ \E r \in DOMAIN requests : importTracks_respond(r)
  \/ \E r \in DOMAIN purchaseTriggers :
       \E trackId \in purchaseTriggers[r].pending : onNewPurchase_set(r, trackId)
  \/ Sweep
  \/ \E s \in DOMAIN sweeps : SweepStep(s)
  \/ \E t \in DOMAIN tasks :
       TaskStep(t, TRUE, AllCandidateLists, InsertFailures, BOOLEAN)

Spec == Init /\ [][Next]_vars

\* A two-artist track is delivered and reconciled by its create trigger.
NextDuo ==
  \/ Webhook(DeliveriesDuo)
  \/ \E r \in DOMAIN requests : importTracks_respond(r)
  \/ \E r \in DOMAIN purchaseTriggers :
       \E trackId \in purchaseTriggers[r].pending : onNewPurchase_set(r, trackId)
  \/ \E t \in DOMAIN tasks :
       TaskStep(t, TRUE, AllCandidateLists, InsertFailures, BOOLEAN)

SpecDuo == Init /\ [][NextDuo]_vars

\* One sweep over a store that earlier purchases have filled with NumTracks
\* Track Records, some of them resolved already; no invocation is in flight.
\* The token endpoint answers, a search finds candidates or none, an
\* insertion succeeds or fails.
RECURSIVE DecimalString(_)
DecimalString(n) ==
  IF n < 10 THEN <<Digits[n + 1]>>
  ELSE DecimalString(n \div 10) \o <<Digits[(n % 10) + 1]>>

StoredKey(i) == DecimalString(100 + i)
StoredTrack(i) ==
  [item |-> StoredKey(i), name |-> <<"T","u","n","e">>, artists |-> <<"D","J"," ","A">>]

ResolvedBefore == {{}, {2}, {1, 11}}

InitSweep ==
  \E resolved \in ResolvedBefore :
    LET order == SortedKeys({StoredKey(i) : i \in resolved})
        rank(k) == CHOOSE j \in DOMAIN order : order[j] = k
    IN /\ purchases = [o \in {"X"} |->
                        [tracks |-> [k \in {StoredKey(i) : i \in 1..NumTracks} |->
                           StoredTrack(Number(k).val - 100)]]]
       /\ tracks = [k \in {StoredKey(i) : i \in 1..NumTracks} |->
                     LET i == Number(k).val - 100
                     IN [track |-> StoredTrack(i),
                         spotifyUri |-> IF i \in resolved THEN Uri(1, 1) ELSE Null,
                         spotifyPlaylistSnapshotId |->
                           IF i \in resolved THEN rank(k) ELSE NoSnapshot]]
       /\ tokens = [access_token |-> InitialAccessToken, refresh_token |-> RefreshToken]
       /\ requests = <<>>
       /\ purchaseTriggers = <<>>
       /\ sweeps = <<>>
       /\ tasks = <<>>
       /\ playlist = [j \in 1..Cardinality(resolved) |-> Uri(1, 1)]
       /\ tokensIssued = 0

NextSweep ==
  \/ (sweeps = <<>> /\ retrySpotify_once)
  \/ \E s \in DOMAIN sweeps : SweepStep(s)
  \/ \E t \in DOMAIN tasks :
       TaskStep(t, FALSE, {"none", "some"}, {"other"}, {TRUE})

SpecSweep == InitSweep /\ [][NextSweep]_vars

\* One delivery of one track whose title is put together from at most
\* MaxPieces of these pieces: the noise phrases in two casings, their halves,
\* the parentheses and a word.  Its create-triggered run sanitizes the title
\* for its query.
TitlePieces ==
  {<<"O","r","i","g","i","n","a","l"," ","M","i","x">>,
   <<"o","R","i","G","i","N","a","L"," ","m","I","x">>,
   <<"E","x","t","e","n","d","e","d"," ","M","i","x">>,
   <<"O","r","i","g","i","n","a","l"," ">>,
   <<"E","x","t","e","n","d","e","d"," ">>,
   <<"M","i","x">>,
   <<"(">>,
   <<")">>,
   <<"S","o","n","g">>}

RECURSIVE TitlesOf(_)
TitlesOf(n) ==
  IF n = 0 THEN {<<>>}
  ELSE LET shorter == TitlesOf(n - 1)
       IN shorter \cup {title \o piece : title \in shorter, piece \in TitlePieces}

Titles == TitlesOf(MaxPieces)

DeliveriesTitles ==
  {[order_id |-> "X",
    tracks |-> << [Item |-> ItemSong, Name |-> title, Artists |-> <<"D","J"," ","A">>] >>] :
     title \in Titles}

NextTitles ==
  \/ /\ requests = <<>>
     /\ \E body \in DeliveriesTitles : importTracks_set(body.order_id, body.tracks)
  \/ \E r \in DOMAIN requests : importTracks_respond(r)
  \/ \E r \in DOMAIN purchaseTriggers :
       \E trackId \in purchaseTriggers[r].pending : onNewPurchase_set(r, trackId)
  \/ \E t \in DOMAIN tasks :
       TaskStep(t, FALSE, {"none", "some"}, {"other"}, {TRUE})

SpecTitles == Init /\ [][NextTitles]_vars

\* The store holds the record of a track the catalogue does not have, left
\* without a matched URI by its run; track 123 is then delivered, and
\* retrySpotify is invoked again and again, up to MaxRetries times, each time
\* once the sweep before is over.  The catalogue is at its best: every
\* refresh is answered, every search for track 123 finds candidates and every
\* insertion a sweep asks for succeeds; only the insertion of the
\* create-triggered run may fail.  No step that can be taken is put off for
\* ever.
ItemRare == <<"7","8","9">>
TrackRare ==
  [item |-> ItemRare,
   name |-> <<"T","u","n","e">>,
   artists |-> <<"D","J"," ","A">>]

InitRecover ==
  /\ purchases = [o \in {"W"} |-> [tracks |-> [k \in {ItemRare} |-> TrackRare]]]
  /\ tracks = [k \in {ItemRare} |->
                 [track |-> TrackRare, spotifyUri |-> Null,
                  spotifyPlaylistSnapshotId |-> NoSnapshot]]
  /\ tokens = [access_token |-> 1, refresh_token |-> RefreshToken]
  /\ requests = <<>>
  /\ purchaseTriggers = <<>>
  /\ sweeps = <<>>
  /\ tasks = <<>>
  /\ playlist = <<>>
  /\ tokensIssued = 1

SweepOver(s) == sweeps[s].pc \in {"complete", "rejected"}

NextRecover ==
  \/ /\ requests = <<>>
     /\ importTracks_set("X", <<TrackSong>>)
  \/ \E r \in DOMAIN requests : importTracks_respond(r)
  \/ \E r \in DOMAIN purchaseTriggers :
       \E trackId \in purchaseTriggers[r].pending : onNewPurchase_set(r, trackId)
  \/ /\ Len(sweeps) < MaxRetries
     /\ \A s \in DOMAIN sweeps : SweepOver(s)
     /\ retrySpotify_once
  \/ \E s \in DOMAIN sweeps : SweepStep(s)
  \/ \E t \in DOMAIN tasks :
       TaskStep(t, FALSE,
                IF tasks[t].trackId = ItemSong THEN {"some"} ELSE {"none"},
                IF t.kind = "onNewTracks" THEN {"other"} ELSE {},
                {TRUE})

SpecRecover == InitRecover /\ [][NextRecover]_vars /\ WF_vars(NextRecover)

\* ------------------------------------------------------------------ claims

Finished(t) == tasks[t].pc \in {"done", "rejected"}
TasksOf(trackId) == {t \in DOMAIN tasks : tasks[t].trackId = trackId}

\* C1: a playlist insertion that fails with an authorization error is
\* followed by one token refresh and exactly one retry of the insertion, so a
\* run that met such a failure ends with two insertion calls and one refresh
\* more than the one importTrack makes up front; after any other failure the
\* run ends with the one insertion call it made.
C1_UnauthorizedInsertIsRetriedOnce ==
  \A t \in DOMAIN tasks :
    /\ (Finished(t) /\ tasks[t].error = "unauthorized") =>
         (tasks[t].insertCalls = 2 /\ tasks[t].refreshCalls = 2)
    /\ (Finished(t) /\ tasks[t].error = "other") =>
         (tasks[t].insertCalls = 1 /\ tasks[t].pc = "rejected")

\* C2: a Track Record that has a snapshot id has a matched URI, and a run
\* that matched a URI and was given a snapshot id leaves both on the record
\* when it completes.
C2_SnapshotIdOnlyWithUri ==
  /\ \A k \in DOMAIN tracks :
       tracks[k].spotifyPlaylistSnapshotId # NoSnapshot => tracks[k].spotifyUri # Null
  /\ \A t \in DOMAIN tasks :
       (tasks[t].pc = "done" /\ tasks[t].spotifyPlaylistSnapshotId # NoSnapshot) =>
         /\ tracks[tasks[t].trackId].spotifyUri # Null
         /\ tracks[tasks[t].trackId].spotifyPlaylistSnapshotId # NoSnapshot

\* C3: a run all of whose searches found no candidate completes, and it has
\* written neither field and called the playlist endpoint not once; a Track
\* Record for which no run has found a candidate has neither field.
NoCandidate(t) ==
  /\ tasks[t].responses # <<>>
  /\ \A i \in DOMAIN tasks[t].responses : tasks[t].responses[i] = Null

C3_UnresolvableLeavesNoTrace ==
  /\ \A t \in DOMAIN tasks :
       NoCandidate(t) =>
         /\ tasks[t].pc = "done"
         /\ tasks[t].uriWrites = 0
         /\ tasks[t].snapshotWrites = 0
         /\ tasks[t].insertCalls = 0
  /\ \A k \in DOMAIN tracks :
       (\A t \in TasksOf(k) : \A i \in DOMAIN tasks[t].responses :
          tasks[t].responses[i] \in {"pending", Null}) =>
         /\ tracks[k].spotifyUri = Null
         /\ tracks[k].spotifyPlaylistSnapshotId = NoSnapshot

\* C3 witness: the create-triggered run of track 123 found nothing and is
\* over, and the record is still bare.
C3_Witness ==
  /\ TriggerTask(ItemSong) \in DOMAIN tasks
  /\ NoCandidate(TriggerTask(ItemSong))
  /\ tasks[TriggerTask(ItemSong)].pc = "done"
  /\ tracks[ItemSong].spotifyUri = Null
  /\ tracks[ItemSong].spotifyPlaylistSnapshotId = NoSnapshot

\* C4 (as stated): the matched URI of a Track Record is written at most once,
\* by a run whose search found a candidate, and its snapshot id is written by
\* a run whose playlist insertion succeeded for the URI the record holds.
C4_UriWrittenAtMostOnce ==
  \A k \in DOMAIN tracks :
    /\ Cardinality({t \in TasksOf(k) : tasks[t].uriWrites > 0}) <= 1
    /\ \A t \in TasksOf(k) : tasks[t].uriWrites <= 1
    /\ tracks[k].spotifyUri # Null =>
         \E t \in TasksOf(k) :
           /\ tasks[t].uriWrites = 1
           /\ \E i \in DOMAIN tasks[t].responses :
                tasks[t].responses[i] = tracks[k].spotifyUri
    /\ tracks[k].spotifyPlaylistSnapshotId # NoSnapshot =>
         \E t \in TasksOf(k) :
           /\ tasks[t].snapshotWrites = 1
           /\ tasks[t].error = "none"
           /\ tasks[t].spotifyUri = tracks[k].spotifyUri

\* the URI the playlist was given when the insertion answered snapshot_id
InsertedAt(snapshot_id) == playlist[Len(playlist) - snapshot_id + 1]

FirstCandidate(responses) ==
  CHOOSE u \in {Null} \cup {responses[i] : i \in DOMAIN responses} :
    \/ /\ u = Null
       /\ \A i \in DOMAIN responses : responses[i] = Null
    \/ \E i \in DOMAIN responses :
         /\ responses[i] = u
         /\ u # Null
         /\ \A j \in 1..(i - 1) : responses[j] = Null

\* C4 (amended): every run writes the matched URI at most once, after its
\* own search has settled with a candidate, and writes the snapshot id at most
\* once, after its own insertion of that URI succeeded; what a Track Record
\* holds was written by a run for that record.  Several runs may each write.
C4_WritesFollowTheirCauses ==
  /\ \A t \in DOMAIN tasks :
       /\ tasks[t].uriWrites <= 1
       /\ tasks[t].snapshotWrites <= 1
       /\ tasks[t].uriWrites = 1 =>
            /\ \A i \in DOMAIN tasks[t].responses : tasks[t].responses[i] # "pending"
            /\ tasks[t].spotifyUri # Null
            /\ tasks[t].spotifyUri = FirstCandidate(tasks[t].responses)
       /\ tasks[t].snapshotWrites = 1 =>
            /\ tasks[t].uriWrites = 1
            /\ tasks[t].insertCalls = 1
            /\ tasks[t].error = "none"
            /\ tasks[t].spotifyPlaylistSnapshotId # NoSnapshot
            /\ InsertedAt(tasks[t].spotifyPlaylistSnapshotId) = tasks[t].spotifyUri
  /\ \A k \in DOMAIN tracks :
       /\ tracks[k].spotifyUri # Null =>
            \E t \in TasksOf(k) :
              tasks[t].uriWrites = 1 /\ tasks[t].spotifyUri = tracks[k].spotifyUri
       /\ tracks[k].spotifyPlaylistSnapshotId # NoSnapshot =>
            \E t \in TasksOf(k) :
              /\ tasks[t].snapshotWrites = 1
              /\ tasks[t].spotifyPlaylistSnapshotId = tracks[k].spotifyPlaylistSnapshotId

\* C4 witness: the create-triggered run and a run of the sweep have both
\* written the URI of track 123, and the record holds both fields.
C4_Witness ==
  /\ ItemSong \in DOMAIN tracks
  /\ tracks[ItemSong].spotifyUri # Null
  /\ tracks[ItemSong].spotifyPlaylistSnapshotId # NoSnapshot
  /\ \E t \in TasksOf(ItemSong) : t.kind = "onNewTracks" /\ tasks[t].uriWrites = 1
  /\ \E t \in TasksOf(ItemSong) : t.kind = "retrySpotify" /\ tasks[t].uriWrites = 1

TrackLoaded(t) == tasks[t].pc \notin {"loadTokens", "refreshAccessToken", "setAccessToken"}
SearchOver(t) == TrackLoaded(t) /\ tasks[t].pc # "searchTrack"

QueriesDuo ==
  << <<"a","r","t","i","s","t",":","A"," ","t","r","a","c","k",":","T","u","n","e">>,
     <<"a","r","t","i","s","t",":"," ","B"," ","t","r","a","c","k",":","T","u","n","e">> >>

\* C5: for the artist list "A, B" searchTrack sends exactly the two queries
\* "artist:A track:Tune" and "artist: B track:Tune", both before either has
\* settled; each settles to the first URI of its candidate list or to null;
\* the result is that of the first artist if it has one, else that of the
\* second, whichever settled first.
C5_FirstMatchInArtistOrder ==
  \A t \in TasksOf(ItemDuo) :
    /\ ~TrackLoaded(t) => tasks[t].searchQueries = <<>>
    /\ TrackLoaded(t) =>
         /\ tasks[t].searchQueries = QueriesDuo
         /\ DOMAIN tasks[t].responses = {1, 2}
         /\ \A i \in {1, 2} : tasks[t].responses[i] \in {"pending", Null, Uri(i, 1)}
    /\ SearchOver(t) =>
         /\ \A i \in {1, 2} : tasks[t].responses[i] # "pending"
         /\ tasks[t].spotifyUri =
              IF tasks[t].responses[1] # Null THEN tasks[t].responses[1]
              ELSE tasks[t].responses[2]

\* C5 witness: only the query of the second artist found candidates, and
\* searchTrack returned the first of them.
C5_Witness ==
  \E t \in TasksOf(ItemDuo) :
    /\ SearchOver(t)
    /\ tasks[t].responses = <<Null, Uri(2, 1)>>
    /\ tasks[t].failedQueries = {}
    /\ tasks[t].spotifyUri = Uri(2, 1)

\* C6: a failed query settles to null; a run is rejected only by the
\* playlist call, never by a search; a candidate found for one artist is
\* returned whatever happened to the other query; and when every query failed
\* or found nothing, searchTrack returns no match and the run completes.
C6_FailedSearchIsNoMatch ==
  \A t \in DOMAIN tasks :
    /\ \A i \in tasks[t].failedQueries : tasks[t].responses[i] = Null
    /\ tasks[t].pc = "rejected" => (tasks[t].insertCalls = 1 /\ tasks[t].error # "none")
    /\ SearchOver(t) =>
         /\ (\E i \in DOMAIN tasks[t].responses : tasks[t].responses[i] # Null) =>
              tasks[t].spotifyUri # Null
         /\ (\A i \in DOMAIN tasks[t].responses : tasks[t].responses[i] = Null) =>
              /\ tasks[t].spotifyUri = Null
              /\ tasks[t].pc = "done"
              /\ tasks[t].error = "none"

\* C6 witness: the query of the first artist failed, that of the second found
\* candidates, and the run went on with the second's first URI.
C6_Witness ==
  \E t \in TasksOf(ItemDuo) :
    /\ tasks[t].failedQueries = {1}
    /\ tasks[t].spotifyUri = Uri(2, 1)
    /\ tasks[t].uriWrites = 1

SweepTasks(s) == {t \in DOMAIN tasks : t.kind = "retrySpotify" /\ t.sweep = s}
KeyNumber(k) == Number(k).val

\* C7: the batch of a sweep holds only records that had no matched URI when
\* the store was queried, the ten with the smallest keys if there were ten or
\* more (of the twelve records 101..112: 101..110), each once and in key
\* order; the run for a record of the batch is entered only when the runs for
\* all records before it have completed; a sweep that completes has run all
\* of its batch.
C7_SweepTakesFirstTenInTurn ==
  \A s \in DOMAIN sweeps :
    LET batch == sweeps[s].orphanTracks.values
        key(i) == batch[i].track.item
        keys == {key(i) : i \in DOMAIN batch}
        unmatched == sweeps[s].unmatched
    IN /\ Len(batch) <= 10
       /\ Len(batch) = IF Cardinality(unmatched) < 10 THEN Cardinality(unmatched) ELSE 10
       /\ sweeps[s].orphanTracks.isNull <=> unmatched = {}
       /\ keys \subseteq unmatched
       /\ \A i \in DOMAIN batch : batch[i].spotifyUri = Null
       /\ \A i, j \in DOMAIN batch : i < j => KeyNumber(key(i)) < KeyNumber(key(j))
       /\ \A k \in keys : \A other \in unmatched \ keys : KeyNumber(k) < KeyNumber(other)
       /\ {KeyNumber(k) : k \in unmatched} = 101..112 =>
            {KeyNumber(k) : k \in keys} = 101..110
       /\ {t.index : t \in SweepTasks(s)} = 1..sweeps[s].started
       /\ sweeps[s].started <= Len(batch)
       /\ \A t \in SweepTasks(s) :
            /\ tasks[t].trackId = key(t.index)
            /\ t.key = key(t.index)
            /\ \A before \in SweepTasks(s) :
                 before.index < t.index => tasks[before].pc = "done"
       /\ sweeps[s].pc = "complete" =>
            /\ sweeps[s].started = Len(batch)
            /\ \A t \in SweepTasks(s) : tasks[t].pc = "done"

\* C7 witness: twelve records had no matched URI, and the sweep has completed
\* after ten runs.
C7_Witness ==
  \E s \in DOMAIN sweeps :
    /\ {KeyNumber(k) : k \in sweeps[s].unmatched} = 101..112
    /\ sweeps[s].pc = "complete"
    /\ Cardinality(SweepTasks(s)) = 10

\* C8: retrySpotify has answered 200 before the first run of its batch is
\* entered, and the answer stays whatever becomes of the batch; importTracks
\* answers 200 once the purchase is written, whatever the runs its tracks
\* trigger are doing; neither handler ends without having answered 200.
C8_AcknowledgedBeforeReconciliation ==
  /\ \A s \in DOMAIN sweeps :
       /\ sweeps[s].pc = "send" => (sweeps[s].status = 0 /\ SweepTasks(s) = {})
       /\ sweeps[s].pc # "send" => sweeps[s].status = 200
       /\ SweepTasks(s) # {} => sweeps[s].status = 200
  /\ \A r \in DOMAIN requests :
       /\ requests[r].pc = "respond" => requests[r].status = 0
       /\ requests[r].pc = "done" => requests[r].status = 200
       /\ requests[r].pc \in {"respond", "done"}

\* C8 witness: a sweep whose run was rejected by the playlist has answered
\* 200, and so has a webhook delivery whose track's run is not over.
C8_Witness ==
  /\ \E s \in DOMAIN sweeps :
       /\ sweeps[s].status = 200
       /\ sweeps[s].pc = "rejected"
       /\ \E t \in SweepTasks(s) : tasks[t].pc = "rejected"
  /\ \E r \in DOMAIN requests :
       /\ requests[r].status = 200
       /\ \E t \in DOMAIN tasks : t.kind = "onNewTracks" /\ ~Finished(t)

SongStored ==
  [item |-> <<"1","2","3">>,
   name |-> <<"S","o","n","g"," ","(","O","r","i","g","i","n","a","l"," ","M","i","x",")">>,
   artists |-> <<"D","J"," ","A">>]

HasSong(payload) == \E i \in DOMAIN payload : payload[i] = TrackSong
LastForOrder(r) ==
  \A later \in DOMAIN requests : later > r => requests[later].order_id # requests[r].order_id

Delivered(item) ==
  \E r \in DOMAIN requests : \E i \in DOMAIN requests[r].tracks :
    requests[r].tracks[i].Item = item
Populated(item) ==
  \E r \in DOMAIN purchaseTriggers :
    /\ item \in DOMAIN purchaseTriggers[r].purchase.tracks
    /\ item \notin purchaseTriggers[r].pending

\* the order of C10: a Track Record exists only once a purchase trigger has
\* written it, the trigger only once a delivery has written the purchase,
\* and a run, hence its queries, only once the Track Record exists
C10_Order ==
  /\ \A k \in DOMAIN tracks : Populated(k) /\ Delivered(k)
  /\ \A r \in DOMAIN purchaseTriggers :
       /\ r \in DOMAIN requests
       /\ \A k \in DOMAIN purchaseTriggers[r].purchase.tracks : Delivered(k)
  /\ \A t \in DOMAIN tasks :
       /\ tasks[t].trackId \in DOMAIN tracks
       /\ tasks[t].track.track = tracks[tasks[t].trackId].track
       /\ ~TrackLoaded(t) => tasks[t].searchQueries = <<>>

\* C10 (as stated): purchase before Track Record before query, and the query
\* for {Item: 123, Name: "Song (Original Mix)", Artists: "DJ A"} is
\* "artist:DJ A track:Song".
C10_QueryIsArtistAndBareTitle ==
  /\ C10_Order
  /\ \A t \in TasksOf(ItemSong) :
       TrackLoaded(t) =>
         tasks[t].searchQueries =
           << <<"a","r","t","i","s","t",":","D","J"," ","A"," ","t","r","a","c","k",":","S","o","n","g">> >>

\* C10 (amended): purchase before Track Record before query, and the query
\* for that track is "artist:DJ A track:Song " with the blank that stood
\* before the parenthesis.
C10_QueryKeepsTheBlank ==
  /\ C10_Order
  /\ \A t \in TasksOf(ItemSong) :
       TrackLoaded(t) =>
         tasks[t].searchQueries =
           << <<"a","r","t","i","s","t",":","D","J"," ","A"," ","t","r","a","c","k",":","S","o","n","g"," ">> >>

\* C10 witness: order X with track 123 was delivered, its Track Record
\* populated, and the create-triggered run has sent its query.
C10_Witness ==
  /\ "X" \in DOMAIN purchases
  /\ ItemSong \in DOMAIN purchases["X"].tracks
  /\ ItemSong \in DOMAIN tracks
  /\ TriggerTask(ItemSong) \in DOMAIN tasks
  /\ TrackLoaded(TriggerTask(ItemSong))
  /\ Len(tasks[TriggerTask(ItemSong)].searchQueries) = 1

\* the purchase triggers that have written the Track Record of item
Populations(item) ==
  {r \in DOMAIN purchaseTriggers :
     /\ item \in DOMAIN purchaseTriggers[r].purchase.tracks
     /\ item \notin purchaseTriggers[r].pending}

\* nothing but the run t has written the record it works on since the record
\* was created
OnlyWriter(t) ==
  /\ TasksOf(tasks[t].trackId) = {t}
  /\ Cardinality(Populations(tasks[t].trackId)) = 1

\* C11: a run whose playlist insertion failed is rejected with that error
\* after the one insertion call, having written the URI and no snapshot id and
\* added nothing to the playlist on its own account; a run is rejected for no
\* other reason; the rejection reaches the caller (a sweep that awaits such a
\* run never completes and enters no further run); and where no other run or
\* purchase wrote the record, the record holds the URI of the run and no
\* snapshot id.
C11_InsertionFailurePropagates ==
  \A t \in DOMAIN tasks :
    /\ tasks[t].error # "none" <=> tasks[t].pc = "rejected"
    /\ tasks[t].pc = "rejected" =>
         /\ tasks[t].error \in InsertFailures
         /\ tasks[t].insertCalls = 1
         /\ tasks[t].uriWrites = 1
         /\ tasks[t].snapshotWrites = 0
         /\ tasks[t].spotifyUri # Null
         /\ tasks[t].spotifyPlaylistSnapshotId = NoSnapshot
         /\ t.kind = "retrySpotify" =>
              /\ sweeps[t.sweep].pc \in {"batchImportTracks", "rejected"}
              /\ sweeps[t.sweep].started = t.index
         /\ OnlyWriter(t) =>
              /\ tracks[tasks[t].trackId].spotifyUri = tasks[t].spotifyUri
              /\ tracks[tasks[t].trackId].spotifyPlaylistSnapshotId = NoSnapshot
              /\ playlist = <<>>

\* C11 witness: the insertion of the create-triggered run of track 123 failed;
\* the run is rejected and the record holds the URI and no snapshot id.
C11_Witness ==
  /\ TriggerTask(ItemSong) \in DOMAIN tasks
  /\ tasks[TriggerTask(ItemSong)].pc = "rejected"
  /\ tasks[TriggerTask(ItemSong)].error = "other"
  /\ OnlyWriter(TriggerTask(ItemSong))
  /\ tracks[ItemSong].spotifyUri = Uri(1, 1)
  /\ tracks[ItemSong].spotifyPlaylistSnapshotId = NoSnapshot

\* does s contain the literal pat, whatever the casing
ContainsCI(s, pat) ==
  \E i \in 1..(Len(s) - Len(pat) + 1) : MatchesHeadCI(SubSeq(s, i, Len(s)), pat)

HasParens(s) == \E i \in DOMAIN s : s[i] \in {"(", ")"}

\* what sanitizeTrackName made of the title of the run t: the query of the
\* first artist without `artist:${artist} track:`
SanitizedTitle(t) ==
  LET query == tasks[t].searchQueries[1]
      artist == Split(tasks[t].track.track.artists, ",")[1]
  IN SubSeq(query, Len(ArtistPrefix) + Len(artist) + Len(TrackPrefix) + 1, Len(query))

\* C12: sanitizeTrackName yields a string for every title; for a title that
\* contains "Original Mix" in some casing the result does not contain it in
\* any casing, likewise for "Extended Mix", and in both cases the result has
\* no parenthesis; a title with neither phrase nor parenthesis is returned
\* unchanged.
C12_SanitizedTitleHasNoNoise ==
  \A t \in DOMAIN tasks :
    TrackLoaded(t) =>
      LET name == tasks[t].track.track.name
          sanitized == SanitizedTitle(t)
      IN /\ sanitized \in Seq({name[i] : i \in DOMAIN name})
         /\ ContainsCI(name, OriginalMix) =>
              (~ContainsCI(sanitized, OriginalMix) /\ ~HasParens(sanitized))
         /\ ContainsCI(name, ExtendedMix) =>
              (~ContainsCI(sanitized, ExtendedMix) /\ ~HasParens(sanitized))
         /\ (~ContainsCI(name, OriginalMix) /\ ~ContainsCI(name, ExtendedMix)
               /\ ~HasParens(name)) => sanitized = name

\* the record of track 123 is as a failed insertion leaves it: its run was
\* rejected, no run for it is in flight, and it holds a matched URI and no
\* snapshot id
Stuck ==
  /\ ItemSong \in DOMAIN tracks
  /\ tracks[ItemSong].spotifyUri # Null
  /\ tracks[ItemSong].spotifyPlaylistSnapshotId = NoSnapshot
  /\ \E t \in TasksOf(ItemSong) : tasks[t].pc = "rejected"
  /\ \A t \in TasksOf(ItemSong) : Finished(t)

\* the record of track 123 holds a snapshot id
Recovered ==
  /\ ItemSong \in DOMAIN tracks
  /\ tracks[ItemSong].spotifyPlaylistSnapshotId # NoSnapshot

\* C13: a sweep invoked while the record of track 123 holds a matched URI
\* and no snapshot id after a failed insertion takes that record into its
\* batch (the store holds fewer records than a batch); and when the record is
\* in that state with every invocation of retrySpotify still to come, the
\* sweeps that follow lead to a snapshot id on the record.
C13_StuckRecordIsRecovered ==
  /\ [][(Stuck /\ Len(sweeps') > Len(sweeps)) =>
          \E i \in DOMAIN sweeps'[Len(sweeps')].orphanTracks.values :
            sweeps'[Len(sweeps')].orphanTracks.values[i].track.item = ItemSong]_vars
  /\ (Stuck /\ sweeps = <<>>) ~> Recovered

\* searchTrack has sent the queries of the run and none has settled
SearchStarted(task) ==
  /\ task.pc = "searchTrack"
  /\ task.searchQueries # <<>>
  /\ \A i \in DOMAIN task.responses : task.responses[i] = "pending"

\* C14: a step that ends the token refresh of a run never rejects the run.
\* When the refresh call failed, the step leaves /tokens and the token of the
\* client as they were and starts the search.  When it succeeded, the client
\* is given a token just issued with the search not yet started, and the step
\* that starts the search is the one that has stored that token at
\* /tokens/access_token.  The search starts in no other way.
C14_RefreshNeverAborts ==
  [][\A t \in DOMAIN tasks :
       /\ tasks[t].pc \in {"refreshAccessToken", "setAccessToken"} =>
            /\ tasks'[t].pc \in {tasks[t].pc, "setAccessToken", "searchTrack"}
            /\ tasks'[t].error = "none"
       /\ (tasks[t].pc = "refreshAccessToken" /\ tasks'[t].pc = "searchTrack") =>
            /\ tokens' = tokens
            /\ tokensIssued' = tokensIssued
            /\ tasks'[t].accessToken = tasks[t].accessToken
            /\ tasks'[t].refreshCalls = 1
            /\ SearchStarted(tasks'[t])
       /\ (tasks[t].pc = "refreshAccessToken" /\ tasks'[t].pc = "setAccessToken") =>
            /\ tokensIssued' = tokensIssued + 1
            /\ tasks'[t].accessToken = tokensIssued'
            /\ tasks'[t].refreshCalls = 1
            /\ tasks'[t].searchQueries = <<>>
       /\ (tasks[t].pc = "setAccessToken" /\ tasks'[t].pc # "setAccessToken") =>
            /\ tokens'.access_token = tasks[t].accessToken
            /\ tokens'.refresh_token = tokens.refresh_token
            /\ tasks'[t].accessToken = tasks[t].accessToken
            /\ SearchStarted(tasks'[t])
       /\ (tasks[t].pc # "searchTrack" /\ tasks'[t].pc = "searchTrack") =>
            tasks[t].pc \in {"refreshAccessToken", "setAccessToken"}
    ]_vars

\* C14 witness: the refresh of the create-triggered run failed, so it searches
\* with the token it had loaded, and /tokens/access_token holds the token a
\* run of the sweep was issued and stored before it started its search.
C14_Witness ==
  /\ TriggerTask(ItemSong) \in DOMAIN tasks
  /\ SearchStarted(tasks[TriggerTask(ItemSong)])
  /\ tasks[TriggerTask(ItemSong)].accessToken = InitialAccessToken
  /\ tasks[TriggerTask(ItemSong)].refreshCalls = 1
  /\ \E t \in DOMAIN tasks :
       /\ t.kind = "retrySpotify"
       /\ SearchStarted(tasks[t])
       /\ tasks[t].accessToken = 1
       /\ tokens.access_token = 1

\* C15: no step deletes a Track Record, and no step takes away a matched URI
\* or a snapshot id that a Track Record holds.
C15_ResolutionFieldsAreKept ==
  [][\A k \in DOMAIN tracks :
       /\ k \in DOMAIN tracks'
       /\ tracks[k].spotifyUri # Null => tracks'[k].spotifyUri # Null
       /\ tracks[k].spotifyPlaylistSnapshotId # NoSnapshot =>
            tracks'[k].spotifyPlaylistSnapshotId # NoSnapshot
    ]_vars

\* the runs that are past their refresh with this token in their client:
\* they were issued it and have stored it, or had loaded it from /tokens
Stored(token) ==
  {t \in DOMAIN tasks : TrackLoaded(t) /\ tasks[t].accessToken = token}

\* C16: /tokens holds the refresh token it was provisioned with, every run
\* has read that one, and /tokens/access_token holds either its initial value
\* or a token the token endpoint issued to a run that has stored it.
C16_RefreshTokenIsOnlyRead ==
  /\ DOMAIN tokens = {"access_token", "refresh_token"}
  /\ tokens.refresh_token = RefreshToken
  /\ \A t \in DOMAIN tasks :
       tasks[t].refreshToken = IF tasks[t].pc = "loadTokens" THEN Null ELSE RefreshToken
  /\ \/ tokens.access_token = InitialAccessToken
     \/ /\ tokens.access_token \in 1..tokensIssued
        /\ Stored(tokens.access_token) # {}

\* C16 witness: two runs were each issued a token and both have stored
\* theirs, the run with the older token last: /tokens/access_token holds the
\* first token issued, and the refresh token is as provisioned.
C16_Witness ==
  /\ tokensIssued = 2
  /\ tokens.access_token = 1
  /\ Stored(1) # {}
  /\ Stored(2) # {}
  /\ tokens.refresh_token = RefreshToken

\* the playlist call of the run t has succeeded
Inserted(t) == tasks[t].insertCalls = 1 /\ tasks[t].error = "none"

\* C17 (as stated): of the runs for one track identifier at most one has
\* added to the playlist, and no URI is on the playlist twice.
C17_InsertedAtMostOnce ==
  /\ \A k \in DOMAIN tracks : Cardinality({t \in TasksOf(k) : Inserted(t)}) <= 1
  /\ \A i, j \in DOMAIN playlist : i # j => playlist[i] # playlist[j]

\* C17 (amended): every run calls the playlist at most once, the playlist
\* holds one entry for each run whose call succeeded, with the URI of that
\* run, and every run was entered for a record that had no matched URI when
\* the trigger or the sweep read it.  Several runs for one identifier may
\* each add the track.
C17_OneInsertionPerRun ==
  /\ \A t \in DOMAIN tasks :
       /\ tasks[t].insertCalls <= 1
       /\ tasks[t].track.spotifyUri = Null
       /\ Inserted(t) => \E i \in DOMAIN playlist : playlist[i] = tasks[t].spotifyUri
  /\ Len(playlist) = Cardinality({t \in DOMAIN tasks : Inserted(t)})
  /\ \A i \in DOMAIN playlist :
       \E t \in DOMAIN tasks : Inserted(t) /\ tasks[t].spotifyUri = playlist[i]

\* C17 witness: a sweep selected the record of track 123 while its
\* create-triggered run had not yet written the URI; both runs added the
\* track, which is on the playlist twice.
C17_Witness ==
  /\ TriggerTask(ItemSong) \in DOMAIN tasks
  /\ Inserted(TriggerTask(ItemSong))
  /\ \E t \in TasksOf(ItemSong) : t.kind = "retrySpotify" /\ Inserted(t)
  /\ Cardinality(Populations(ItemSong)) = 1
  /\ playlist = <<Uri(1, 1), Uri(1, 1)>>

\* C18: a sweep ends, whatever became of its runs, only when a run has been
\* entered for every record of its batch, and each of them is over.
C18_BatchGoesOnAfterFailure ==
  \A s \in DOMAIN sweeps :
    (SweepOver(s) /\ ~sweeps[s].orphanTracks.isNull) =>
      /\ sweeps[s].started = Len(sweeps[s].orphanTracks.values)
      /\ {t.index : t \in SweepTasks(s)} = DOMAIN sweeps[s].orphanTracks.values
      /\ \A t \in SweepTasks(s) : Finished(t)

\* C19: a sweep whose query found no record without a matched URI answers
\* 200, enters no run, and does not end in an error.
C19_EmptySweepCompletes ==
  \A s \in DOMAIN sweeps :
    sweeps[s].orphanTracks.isNull =>
      /\ sweeps[s].pc # "send" => sweeps[s].status = 200
      /\ SweepTasks(s) = {}
      /\ sweeps[s].pc # "rejected"

====
